---- MODULE Spec2Model ----
(***************************************************************************)
(* A model of isotropy-parser-db: the babel plugin that validates its      *)
(* configuration and visits expression nodes, the read analyzer and its    *)
(* table of chainable operations, the command builders that make the IR,   *)
(* and the sort and update schemas.                                        *)
(*                                                                         *)
(* JavaScript values are modelled as follows.  An optional value is a set: *)
(* {} is undefined, {v} is the value v.  An AST node is a record that      *)
(* keeps the babel field names.  A method chain                            *)
(* `db.todos.filter(f).map(g)` is the root member expression (object,      *)
(* property) and the sequence of calls applied to it, innermost first.     *)
(* The result of an analysis is a record with a kind:                      *)
(*   "none"  nothing has been analysed at this node yet                    *)
(*   "nil"   the analyzer returned undefined (node is not a db operation)  *)
(*   "ir"    an IR node was built (field node)                             *)
(*   "skip"  a chimpanzee Skip value was returned (field message)          *)
(*   "throw" an error was raised (fields error, message)                   *)
(*   "thunk" a function value was returned                                 *)
(*   "ok"    an args extractor returned (field value)                      *)
(*   "match" a build stage returned a value (field value)                  *)
(***************************************************************************)
EXTENDS Integers, Sequences, FiniteSets, TLC

VARIABLES pc, config, rootDeclarations, site, outcome

vars == <<pc, config, rootDeclarations, site, outcome>>

(***************************************************************************)
(* Bounds of the model.                                                    *)
(***************************************************************************)
\* the longest method chain that is analysed
MaxChain == 3

(***************************************************************************)
(* Outcomes.                                                               *)
(***************************************************************************)
NoOutcome == [kind |-> "none"]

Nil == [kind |-> "nil"]

Ir(node) == [kind |-> "ir", node |-> node]

Skip(message) == [kind |-> "skip", message |-> message]

Throw(error, message) == [kind |-> "throw", error |-> error, message |-> message]

Thunk == [kind |-> "thunk"]

NoSite == [type |-> "none"]

(***************************************************************************)
(* The plugin configuration: identifiers, clientPackageName and            *)
(* serverPackageName, each possibly undefined.                             *)
(***************************************************************************)
Undefined == {}

Truthy(v) == v # Undefined

RootNames == {"db", "foo"}

\* the names that the visited import declarations bind to the db module
ImportNames == {"db"}

Configs ==
  [identifiers : {Undefined, {{"db"}}},
   clientPackageName : {Undefined, {"isotropy-client"}},
   serverPackageName : {Undefined, {"isotropy-server"}}]

\* ensureValidConfiguration(config): TRUE iff it returns without throwing
ensureValidConfiguration(c) ==
  ~(~Truthy(c.identifiers)
      /\ ~(Truthy(c.clientPackageName) \/ Truthy(c.serverPackageName)))

(***************************************************************************)
(* Command builders: the IR nodes.                                         *)
(* {type, method: name, ...props, source}: a later key overrides an        *)
(* earlier one, which is @@ with the later record on the left.             *)
(***************************************************************************)
createCollection(args) ==
  [type |-> "query", db |-> args.db, collection |-> args.collection]

\* createQuery that forgets the link to its source
createQuery_WithoutSource(name, props, source) ==
  props @@ [type |-> "query", method |-> name]

createQuery(name, props, source) ==
  [source |-> source] @@ props @@ [type |-> "query", method |-> name]

createValue(name, props, source) ==
  [source |-> source] @@ props @@ [type |-> "value", property |-> name]

createModification(name, props, source) ==
  [source |-> source] @@ props @@ [type |-> "modification", method |-> name]

filter(command, predicate) ==
  createQuery("filter", [predicate |-> predicate], command)

map(command, fields) ==
  createQuery("map", [fields |-> fields], command)

slice(command, args) ==
  createQuery("slice", [from |-> args.from, to |-> args.to], command)

sort(command, fields) ==
  createQuery("sort", [fields |-> fields], command)

\* createValue("length", {}, command): the empty props add no key
length(command) ==
  [source |-> command] @@ [type |-> "value", property |-> "length"]

insert(command, items) ==
  createModification("insert", [items |-> items], command)

update(command, args) ==
  createModification("update",
                     [update |-> args.update, predicate |-> args.predicate],
                     command)

remove(command, predicate) ==
  createModification("remove", [predicate |-> predicate], command)

(***************************************************************************)
(* AST nodes handed to the read analyzer.                                  *)
(***************************************************************************)
Identifier(name) == [type |-> "Identifier", name |-> name]

MemberExpr(object, property) ==
  [type |-> "MemberExpression", object |-> Identifier(object),
   property |-> Identifier(property)]

ArrowFunction(params, body) ==
  [type |-> "ArrowFunctionExpression", params |-> params, body |-> body]

NumericLiteral(value) == [type |-> "NumericLiteral", value |-> value]

BinaryExpr(left, operator, right) ==
  [type |-> "BinaryExpression", left |-> left, operator |-> operator,
   right |-> right]

ObjectProperty(key, value) ==
  [type |-> "ObjectProperty", key |-> Identifier(key), value |-> value]

ObjectExpr(properties) ==
  [type |-> "ObjectExpression", properties |-> properties]

\* t => t.assignee === who
FilterPredicate ==
  BinaryExpr(MemberExpr("t", "assignee"), "===", Identifier("who"))

\* arguments of a filter call: a unary and a binary arrow function
FilterArguments ==
  { <<ArrowFunction(<<Identifier("t")>>, FilterPredicate)>>,
    <<ArrowFunction(<<Identifier("t"), Identifier("u")>>, FilterPredicate)>> }

\* arguments of a map call: an object of the parameter's properties, an
\* object with a value that is no property of the parameter, and a body
\* that is no object
MapArguments ==
  { <<ArrowFunction(<<Identifier("t")>>,
        ObjectExpr(<<ObjectProperty("name", MemberExpr("t", "title"))>>))>>,
    <<ArrowFunction(<<Identifier("t")>>,
        ObjectExpr(<<ObjectProperty("name", MemberExpr("u", "title"))>>))>>,
    <<ArrowFunction(<<Identifier("t")>>, MemberExpr("t", "title"))>> }

SliceArguments == { <<NumericLiteral(0), NumericLiteral(2)>> }

ComparatorParams == <<Identifier("x"), Identifier("y")>>

ComparatorObjects == {"x", "y", "z"}

ComparatorFields == {"a", "b"}

RelationalOperators == {">", ">=", "<", "<=", "==="}

\* (x, y) => L.f OP R.g
ReadComparators ==
  { ArrowFunction(ComparatorParams,
                  BinaryExpr(MemberExpr(l, f), o, MemberExpr(r, g))) :
      <<l, f, o, r, g>> \in ComparatorObjects \X ComparatorFields
                             \X RelationalOperators
                             \X ComparatorObjects \X ComparatorFields }

\* the comparators tried inside a chain: x.a > y.a, x.a < y.a, x.a === y.a
\* and x.a > y.b
SortArguments ==
  { <<c>> : c \in { d \in ReadComparators :
                      /\ d.body.left.object.name = "x"
                      /\ d.body.left.property.name = "a"
                      /\ d.body.right.object.name = "y"
                      /\ d.body.operator \in {">", "<", "==="}
                      /\ d.body.right.property.name = "b"
                            => d.body.operator = ">" } }

CallStep(name, arguments) ==
  [type |-> "CallExpression", name |-> name, arguments |-> arguments]

MemberStep(name) == [type |-> "MemberExpression", name |-> name]

\* one link of a chain: a method call or a property access on what precedes
Steps ==
  { CallStep("filter", a) : a \in FilterArguments }
    \cup { CallStep("map", a) : a \in MapArguments }
    \cup { CallStep("slice", a) : a \in SliceArguments }
    \cup { CallStep("sort", a) : a \in SortArguments }
    \cup { CallStep("find", <<ArrowFunction(<<Identifier("t")>>,
                                             FilterPredicate)>>) }
    \cup { MemberStep("length"), MemberStep("size") }

\* the innermost member expression of a chain: object.property
RootExprs ==
  { [type |-> "MemberExpression", object |-> o,
     property |-> Identifier("todos")] :
      o \in { Identifier(n) : n \in RootNames }
              \cup { [type |-> "ThisExpression"] } }

SeqsUpTo(S, n) == UNION { [1..k -> S] : k \in 0..n }

\* the babel type of the node that a root followed by steps is
NodeType(steps) ==
  IF steps = <<>> THEN "MemberExpression" ELSE steps[Len(steps)].type

\* root.step1.step2...: an expression tree, flattened
ChainExprs ==
  { [type |-> NodeType(st), root |-> r, steps |-> st] :
      r \in RootExprs, st \in SeqsUpTo(Steps, MaxChain) }

(***************************************************************************)
(* The read analyzer.                                                      *)
(***************************************************************************)
nodeDefinitions ==
  << [id |-> "root", type |-> "predicate"],
     [id |-> "filter", name |-> "filter", type |-> "CallExpression",
      follows |-> {"root", "sort"}],
     [id |-> "map", name |-> "map", type |-> "CallExpression",
      follows |-> {"root", "filter", "sort", "slice"}],
     [id |-> "slice", name |-> "slice", type |-> "CallExpression",
      follows |-> {"root", "filter", "sort", "map"}],
     [id |-> "sort", name |-> "sort", type |-> "CallExpression",
      follows |-> {"root", "filter"}],
     [id |-> "length", name |-> "length", type |-> "MemberExpression",
      follows |-> {"root", "filter"}] >>

NodeIds == { nodeDefinitions[i].id : i \in DOMAIN nodeDefinitions }

\* the definition with a given id
Definition(id) ==
  nodeDefinitions[CHOOSE i \in DOMAIN nodeDefinitions :
                    nodeDefinitions[i].id = id]

\* isRoot(path, state, config), with the root declarations found so far
isRoot(node, decls, c) ==
  IF node.type = "MemberExpression" /\ node.object.type = "Identifier"
  THEN IF Truthy(c.identifiers)
       THEN \E ids \in c.identifiers : node.object.name \in ids
       ELSE node.object.name \in decls
  ELSE FALSE

getRootArgs(node, decls, c) ==
  [db |-> node.object.name, collection |-> node.property.name]

Ok(value) == [kind |-> "ok", value |-> value]

ErrorClass == "Error"

assertUnaryArrowFunction(fnExpr) ==
  fnExpr.type = "ArrowFunctionExpression" /\ Len(fnExpr.params) = 1

assertBinaryArrowFunction(fnExpr) ==
  fnExpr.type = "ArrowFunctionExpression" /\ Len(fnExpr.params) = 2

assertMemberExpressionUsesParameter(node, names) ==
  /\ node.type = "MemberExpression"
  /\ node.object.type = "Identifier"
  /\ node.object.name \in names

getFilterArgs(arguments) ==
  LET fnExpr == arguments[1] IN
  IF ~assertUnaryArrowFunction(fnExpr)
  THEN Throw(ErrorClass, "not a unary arrow function")
  ELSE Ok(fnExpr.body)

getMapArgs(arguments) ==
  LET fnExpr == arguments[1] IN
  IF ~assertUnaryArrowFunction(fnExpr)
  THEN Throw(ErrorClass, "not a unary arrow function")
  ELSE LET body == fnExpr.body IN
       IF body.type # "ObjectExpression"
       THEN Throw(ErrorClass, "The map expression should return an object.")
       ELSE LET paramName == fnExpr.params[1].name IN
            IF \E i \in DOMAIN body.properties :
                 ~assertMemberExpressionUsesParameter(
                     body.properties[i].value, {paramName})
            THEN Throw(ErrorClass, "member expression does not use parameter")
            ELSE Ok([i \in DOMAIN body.properties |->
                       <<body.properties[i].key.name,
                         body.properties[i].value.property.name>>])

getSliceArgs(arguments) ==
  Ok([from |-> arguments[1].value, to |-> arguments[2].value])

\* getSortArgs without the test that both parameters are referenced
getSortArgs_UnreferencedParameter(arguments) ==
  LET fnExpr == arguments[1] IN
  IF ~assertBinaryArrowFunction(fnExpr)
  THEN Throw(ErrorClass, "not a binary arrow function")
  ELSE
    LET firstParam == fnExpr.params[1].name
        secondParam == fnExpr.params[2].name
        left == fnExpr.body.left
        right == fnExpr.body.right
        operator == fnExpr.body.operator
    IN
    IF operator \notin {">", ">=", "<", "<="}
    THEN Throw(ErrorClass,
      "The sort function should use the greater than or less than operator.")
    ELSE IF ~assertMemberExpressionUsesParameter(left,
                                                 {firstParam, secondParam})
    THEN Throw(ErrorClass, "member expression does not use parameter")
    ELSE
      LET leftField == left.property.name
          rightField == right.property.name
          leftObject == left.object.name
          rightObject == right.object.name
      IN
      IF leftField # rightField
      THEN Throw(ErrorClass,
                 "The sort expression should use the same field.")
      ELSE Ok(<< [field |-> leftField,
                  ascending |->
                    \/ (operator = ">" /\ firstParam = leftObject)
                    \/ (operator = "<" /\ firstParam = rightObject)] >>)

getSortArgs(arguments) ==
  LET fnExpr == arguments[1] IN
  IF ~assertBinaryArrowFunction(fnExpr)
  THEN Throw(ErrorClass, "not a binary arrow function")
  ELSE
    LET firstParam == fnExpr.params[1].name
        secondParam == fnExpr.params[2].name
        left == fnExpr.body.left
        right == fnExpr.body.right
        operator == fnExpr.body.operator
    IN
    IF operator \notin {">", ">=", "<", "<="}
    THEN Throw(ErrorClass,
      "The sort function should use the greater than or less than operator.")
    ELSE IF ~assertMemberExpressionUsesParameter(left,
                                                 {firstParam, secondParam})
    THEN Throw(ErrorClass, "member expression does not use parameter")
    ELSE
      LET leftField == left.property.name
          rightField == right.property.name
          leftObject == left.object.name
          rightObject == right.object.name
          areBothParamsReferenced ==
            \A i \in {firstParam, secondParam} :
              i \in {leftObject, rightObject}
      IN
      IF leftField # rightField
      THEN Throw(ErrorClass,
                 "The sort expression should use the same field.")
      ELSE IF ~areBothParamsReferenced
      THEN Throw(ErrorClass,
        "The sort expression should reference both parameters in the arrow function.")
      ELSE Ok(<< [field |-> leftField,
                  ascending |->
                    \/ (operator = ">" /\ firstParam = leftObject)
                    \/ (operator = "<" /\ firstParam = rightObject)] >>)

\* the args extractor of a definition; length has none
DefinitionArgs(id, arguments) ==
  CASE id = "filter" -> getFilterArgs(arguments)
    [] id = "map" -> getMapArgs(arguments)
    [] id = "slice" -> getSliceArgs(arguments)
    [] id = "sort" -> getSortArgs(arguments)
    [] OTHER -> Ok(<<>>)

\* the table with the builder of map copied into the definition of filter
DefinitionBuilder_FilterBuiltAsMap(id, command, args) ==
  CASE id = "filter" -> map(command, args)
    [] id = "map" -> map(command, args)
    [] id = "slice" -> slice(command, args)
    [] id = "sort" -> sort(command, args)
    [] id = "length" -> length(command)

\* the builder of a definition
DefinitionBuilder(id, command, args) ==
  CASE id = "filter" -> filter(command, args)
    [] id = "map" -> map(command, args)
    [] id = "slice" -> slice(command, args)
    [] id = "sort" -> sort(command, args)
    [] id = "length" -> length(command)

Resolved(id, node) == [kind |-> "ir", id |-> id, node |-> node]

\* the definitions among ids that match the shape and name of a step
MatchingIds(step, ids) ==
  { id \in ids \ {"root"} :
      /\ Definition(id).type = step.type
      /\ Definition(id).name = step.name }

\* analyze the node made of the root and the first n steps of e, allowing
\* the operations ids: resolve the predecessor, check the follows relation,
\* extract the arguments, build
RECURSIVE analyzeNode(_, _, _, _, _)
analyzeNode(e, n, ids, decls, c) ==
  IF n = 0
  THEN IF "root" \in ids /\ isRoot(e.root, decls, c)
       THEN Resolved("root", createCollection(getRootArgs(e.root, decls, c)))
       ELSE Nil
  ELSE
    LET step == e.steps[n]
        found == MatchingIds(step, ids)
    IN
    IF found = {} THEN Nil
    ELSE
      LET id == CHOOSE i \in found : TRUE
          predecessor == analyzeNode(e, n - 1, NodeIds, decls, c)
      IN
      IF predecessor.kind # "ir" THEN predecessor
      ELSE IF predecessor.id \notin Definition(id).follows THEN Nil
      ELSE
        LET args == IF step.type = "CallExpression"
                    THEN DefinitionArgs(id, step.arguments)
                    ELSE Ok(<<>>)
        IN
        IF args.kind = "throw" THEN args
        ELSE Resolved(id, DefinitionBuilder(id, predecessor.node, args.value))

\* the analyzer made by makeAnalyzer(nodeDefinitions, isRoot)
analyzer(e, ids, decls, c) ==
  LET r == analyzeNode(e, Len(e.steps), ids, decls, c) IN
  IF r.kind = "ir" THEN Ir(r.node) ELSE r

analyzeCallExpression(e, decls, c) ==
  analyzer(e, {"filter", "map", "slice", "sort"}, decls, c)

analyzeMemberExpression(e, decls, c) ==
  analyzer(e, {"root", "length"}, decls, c)

(***************************************************************************)
(* The sort schema: two comparator idioms, each reduced to one descriptor  *)
(* {field, ascending}.                                                     *)
(***************************************************************************)
\* the largest numeric literal in a ternary comparator; the least is -1
MaxVal == 2

Vals == (0 - 1)..MaxVal

\* a binding that no capture has set
UndefinedBinding == "undefined"

Match(value) == [kind |-> "match", value |-> value]

ConditionalExpr(test, consequent, alternate) ==
  [type |-> "ConditionalExpression", test |-> test,
   consequent |-> consequent, alternate |-> alternate]

UnaryExpr(operator, argument) ==
  [type |-> "UnaryExpression", operator |-> operator, argument |-> argument]

\* a value computed inside getSortExpression1: a number or a Skip
SkipValue(message) == [skip |-> TRUE, message |-> message]

Number(n) == [skip |-> FALSE, number |-> n]

\* 1 if the parameters are compared in their order, -1 if swapped
paramOrder(b, p1, p2) ==
  IF b.param1 = p1 /\ b.param2 = p2 THEN Number(1)
  ELSE IF b.param1 = p2 /\ b.param2 = p1 THEN Number(0 - 1)
  ELSE SkipValue("The sort expression must reference parameters.")

operatorVal(o) ==
  IF o \in {">", ">="} THEN Number(1)
  ELSE IF o \in {"<", "<="} THEN Number(0 - 1)
  ELSE IF o \in {"==", "==="} THEN Number(0)
  ELSE SkipValue("Unknown operator was found in the sort expression.")

\* declared by getSortExpression1 and never called
stdVal(val) == IF val > 1 THEN 1 ELSE IF val < 0 THEN 0 - 1 ELSE 0

\* reading a variable inside getSortExpression1: the destructured bindings
\* are in scope; the other names in scope are the functions paramOrder,
\* operatorVal and stdVal, the list legitOperators, and the parameters lhs,
\* rhs and operator of the callback.  Any other name is not defined.
ReadVariable(b, name) ==
  IF name \in DOMAIN b THEN Ok(Number(b[name]))
  ELSE Throw("ReferenceError", name \o " is not defined")

\* one row of normalized: [paramOrder(lhs, rhs), operatorVal(operator), val]
NormalizedRow(b, lhs, rhs, operator) ==
  LET p == paramOrder(b, lhs, rhs)
      o == operatorVal(operator)
      v == ReadVariable(b, "val")
  IN
  IF v.kind = "throw" THEN v ELSE Ok(<<p, o, v.value>>)

getSortExpression1(b) ==
  IF b.lhsProp1 = b.rhsProp1 /\ b.lhsProp1 = b.lhsProp2
       /\ b.lhsProp1 = b.rhsProp2
  THEN
    LET row1 == NormalizedRow(b, b.lhs1, b.rhs1, b.operator1)
        row2 == NormalizedRow(b, b.lhs2, b.rhs2, b.operator2)
    IN
    IF row1.kind = "throw" THEN row1
    ELSE IF row2.kind = "throw" THEN row2
    ELSE
      LET normalized == <<row1.value, row2.value>>
          flattened == row1.value \o row2.value
          skips == { i \in DOMAIN flattened : flattened[i].skip }
          nonResult == flattened[CHOOSE i \in skips :
                                   \A j \in skips : i <= j]
          product(r) == r[1].number * r[2].number * r[3].number
          sum == product(normalized[1]) + product(normalized[2]) + b.val3
      IN
      IF skips # {} THEN Skip(nonResult.message)
      ELSE IF sum = 2
           THEN Match([field |-> b.lhsProp1, ascending |-> TRUE])
      ELSE IF sum = 0 - 2
           THEN Match([field |-> b.lhsProp1, ascending |-> FALSE])
      ELSE Skip("Invalid sort expression.")
  ELSE Skip("All fields in the sort expression must be the same.")

\* object.property with both an Identifier
IsPropertyOfIdentifier(n) ==
  /\ n.type = "MemberExpression"
  /\ n.object.type = "Identifier"
  /\ n.property.type = "Identifier"

IsComparison(n) ==
  /\ n.type = "BinaryExpression"
  /\ IsPropertyOfIdentifier(n.left)
  /\ IsPropertyOfIdentifier(n.right)

\* the integer schema: a numeric literal
integer(n) == n.type = "NumericLiteral"

IsBinaryArrow(fn) ==
  /\ fn.type = "ArrowFunctionExpression"
  /\ Len(fn.params) = 2
  /\ \A i \in 1..2 : fn.params[i].type = "Identifier"

\* the shape that compareFn1 matches
MatchesCompareFn1(fn) ==
  /\ IsBinaryArrow(fn)
  /\ fn.body.type = "ConditionalExpression"
  /\ IsComparison(fn.body.test)
  /\ integer(fn.body.consequent)
  /\ fn.body.alternate.type = "ConditionalExpression"
  /\ IsComparison(fn.body.alternate.test)
  /\ integer(fn.body.alternate.consequent)
  /\ integer(fn.body.alternate.alternate)

\* the captures of compareFn1: both parameters are captured as name, so
\* param1 and param2 are not set
CapturesOfCompareFn1(fn) ==
  [param1 |-> UndefinedBinding, param2 |-> UndefinedBinding,
   lhs1 |-> fn.body.test.left.object.name,
   lhsProp1 |-> fn.body.test.left.property.name,
   rhs1 |-> fn.body.test.right.object.name,
   rhsProp1 |-> fn.body.test.right.property.name,
   operator1 |-> fn.body.test.operator,
   val1 |-> fn.body.consequent.value,
   lhs2 |-> fn.body.alternate.test.left.object.name,
   lhsProp2 |-> fn.body.alternate.test.left.property.name,
   rhs2 |-> fn.body.alternate.test.right.object.name,
   rhsProp2 |-> fn.body.alternate.test.right.property.name,
   operator2 |-> fn.body.alternate.test.operator,
   val2 |-> fn.body.alternate.consequent.value,
   val3 |-> fn.body.alternate.alternate.value]

compareFn1(fn) ==
  IF MatchesCompareFn1(fn) THEN getSortExpression1(CapturesOfCompareFn1(fn))
  ELSE Skip("compareFn1 does not match")

\* L.f - R.g
sortExpression2Ascending(n) == IsComparison(n) /\ n.operator = "-"

\* OP (L.f - R.g), for any unary operator OP, which is captured
sortExpression2Descending(n) ==
  /\ n.type = "UnaryExpression"
  /\ sortExpression2Ascending(n.argument)

\* getSortExpression2 that takes the direction from the operands alone
getSortExpression2_IgnoresNegation(b) ==
  IF \A p \in {b.param1, b.param2} : p \in {b.lhsObject, b.rhsObject}
  THEN IF b.lhsProp = b.rhsProp
       THEN Match([field |-> b.lhsProp,
                   ascending |-> b.param1 = b.lhsObject])
       ELSE Skip("The sort expression must reference the same property on compared objects.")
  ELSE Skip("The sort expression must reference parameters.")

getSortExpression2(b) ==
  LET getSortOrder(negated) ==
        \/ (~negated /\ b.param1 = b.lhsObject)
        \/ (negated /\ b.param1 = b.rhsObject)
  IN
  IF \A p \in {b.param1, b.param2} : p \in {b.lhsObject, b.rhsObject}
  THEN IF b.lhsProp = b.rhsProp
       THEN Match([field |-> b.lhsProp,
                   ascending |-> getSortOrder(b.operator = "-")])
       ELSE Skip("The sort expression must reference the same property on compared objects.")
  ELSE Skip("The sort expression must reference parameters.")

\* the captures of sortExpression2Ascending in a subtraction
CapturesOfSubtraction(n, operator) ==
  [lhsObject |-> n.left.object.name, lhsProp |-> n.left.property.name,
   rhsObject |-> n.right.object.name, rhsProp |-> n.right.property.name,
   operator |-> operator]

compareFn2(fn) ==
  IF ~IsBinaryArrow(fn) THEN Skip("compareFn2 does not match")
  ELSE
    LET params == [param1 |-> fn.params[1].name,
                   param2 |-> fn.params[2].name]
    IN
    IF sortExpression2Ascending(fn.body)
    THEN getSortExpression2(
           params @@ CapturesOfSubtraction(fn.body, UndefinedBinding))
    ELSE IF sortExpression2Descending(fn.body)
    THEN getSortExpression2(
           params @@ CapturesOfSubtraction(fn.body.argument,
                                           fn.body.operator))
    ELSE Skip("compareFn2 does not match")

\* any([compareFn1, compareFn2]): the first alternative that matches
compareFn(fn) ==
  LET first == compareFn1(fn) IN
  IF first.kind \in {"match", "throw"} THEN first ELSE compareFn2(fn)

\* source([collection])(state, config): a reference to a collection of a root
collection(node, decls, c) ==
  IF isRoot(node, decls, c)
  THEN Match(createCollection(getRootArgs(node, decls, c)))
  ELSE Skip("not a collection")

\* sort of db-statements: the builder with its fields in an args object
sortStatement(command, args) == sort(command, args.fields)

\* the sort schema applied to a call expression
sortSchema(call, decls, c) ==
  IF ~(/\ call.type = "CallExpression"
       /\ call.callee.type = "MemberExpression"
       /\ call.callee.property = Identifier("sort"))
  THEN Skip("not a sort call")
  ELSE
    LET object == collection(call.callee.object, decls, c) IN
    IF object.kind # "match" THEN object
    ELSE IF Len(call.arguments) # 1 THEN Skip("array length mismatch")
    ELSE
      LET argument == compareFn(call.arguments[1]) IN
      IF argument.kind # "match" THEN argument
      ELSE Ir(sortStatement(object.value, [fields |-> <<argument.value>>]))

(***************************************************************************)
(* The update schema: root.c = root.c.map(x => test ? {...x, f: v} : x).   *)
(***************************************************************************)
\* the names that the module of the update schema imports from chimpanzee
UpdateImports ==
  {"parse", "capture", "exists", "any", "array", "repeatingItem", "Match"}

SpreadProperty(name) ==
  [type |-> "SpreadProperty", argument |-> Identifier(name)]

\* exists(x => R.equals(identifierPropsOf(x), identifier)): the keys of the
\* identifier, picked from x, have the values they have in the identifier
IsTheIdentifier(x, identifier) ==
  \A k \in DOMAIN identifier : k \in DOMAIN x /\ x[k] = identifier[k]

\* an object whose first property spreads the identifier; the properties
\* that follow are captured
updatedObject(n, identifier) ==
  IF /\ n.type = "ObjectExpression"
     /\ Len(n.properties) >= 1
     /\ n.properties[1].type = "SpreadProperty"
     /\ n.properties[1].argument.type = identifier.type
     /\ n.properties[1].argument.name = identifier.name
  THEN Match(SubSeq(n.properties, 2, Len(n.properties)))
  ELSE Skip("not an updated object")

\* any([standardConditionExpression, inverseConditionExpression]) parsed on
\* the body of the arrow function
getArrowFunctionBody(body, identifier) ==
  IF body.type # "ConditionalExpression"
  THEN Skip("not a conditional expression")
  ELSE
    LET standard == updatedObject(body.consequent, identifier)
        inverse == updatedObject(body.alternate, identifier)
    IN
    IF standard.kind = "match" /\ IsTheIdentifier(body.alternate, identifier)
    THEN Match([test |-> body.test, properties |-> standard.value])
    ELSE IF IsTheIdentifier(body.consequent, identifier)
              /\ inverse.kind = "match"
    THEN Match([test |-> body.test, properties |-> inverse.value])
    ELSE Skip("none of the items matched")

\* evaluating `new name(...)` in the module of the update schema
NewSkip(message) ==
  IF "Skip" \in UpdateImports THEN Skip(message)
  ELSE Throw("ReferenceError", "Skip is not defined")

\* the build stage of the update schema, on the values that were matched
build(left, object, arrow) ==
  IF left = object
  THEN
    LET identifier == Identifier(arrow.params[1].name)
        updateResult == getArrowFunctionBody(arrow.body, identifier)
    IN
    IF updateResult.kind = "match" THEN Thunk ELSE updateResult
  ELSE NewSkip("The result of the map() must be assigned to the same collection.")

\* the update schema applied to an assignment expression
updateSchema(asg, decls, c) ==
  IF ~(/\ asg.type = "AssignmentExpression"
       /\ asg.operator = "=")
  THEN Skip("not an assignment")
  ELSE
    LET left == collection(asg.left, decls, c) IN
    IF left.kind # "match" THEN left
    ELSE IF ~(/\ asg.right.type = "CallExpression"
              /\ asg.right.callee.type = "MemberExpression")
    THEN Skip("not a call of a method")
    ELSE
      LET object == collection(asg.right.callee.object, decls, c) IN
      IF object.kind # "match" THEN object
      ELSE IF ~(/\ asg.right.callee.property = Identifier("map")
                /\ Len(asg.right.arguments) = 1
                /\ asg.right.arguments[1].type = "ArrowFunctionExpression"
                /\ Len(asg.right.arguments[1].params) = 1)
      THEN Skip("not a map of an arrow function")
      ELSE build(left.value, object.value, asg.right.arguments[1])

(***************************************************************************)
(* The nodes handed to the sort schema and to the update schema.           *)
(***************************************************************************)
TernaryOperators == {">", ">=", "<", "===", "!=="}

\* the bindings that getSortExpression1 takes: the comparator (x, y) =>
\* lhs1.lhsProp1 operator1 rhs1.rhsProp1 ? val1
\*   : lhs2.lhsProp2 operator2 rhs2.rhsProp2 ? val2 : val3
Bindings1 ==
  [param1 : {"x"}, param2 : {"y"},
   lhs1 : {"x", "y"}, lhsProp1 : {"a"}, rhs1 : {"x", "y"},
   rhsProp1 : ComparatorFields, operator1 : TernaryOperators, val1 : Vals,
   lhs2 : {"x", "y"}, lhsProp2 : ComparatorFields, rhs2 : {"x", "y"},
   rhsProp2 : ComparatorFields, operator2 : TernaryOperators, val2 : Vals,
   val3 : Vals]

\* the ternary comparator with given bindings
TernaryComparator(b) ==
  ArrowFunction(<<Identifier(b.param1), Identifier(b.param2)>>,
    ConditionalExpr(
      BinaryExpr(MemberExpr(b.lhs1, b.lhsProp1), b.operator1,
                 MemberExpr(b.rhs1, b.rhsProp1)),
      NumericLiteral(b.val1),
      ConditionalExpr(
        BinaryExpr(MemberExpr(b.lhs2, b.lhsProp2), b.operator2,
                   MemberExpr(b.rhs2, b.rhsProp2)),
        NumericLiteral(b.val2),
        NumericLiteral(b.val3))))

\* the ternary comparators handed to the schema: x.a OP1 y.a ? v1 :
\* x.g OP2 y.a ? v2 : v3
TernaryComparators ==
  { TernaryComparator(b) :
      b \in { d \in Bindings1 :
                /\ d.lhs1 = "x" /\ d.rhs1 = "y" /\ d.lhs2 = "x" /\ d.rhs2 = "y"
                /\ d.rhsProp1 = "a" /\ d.rhsProp2 = "a"
                /\ d.operator1 = ">" /\ d.operator2 \in {"<", "==="} } }

UnaryOperators == {"-", "+", "!", "~", "typeof", "void"}

\* L.f - R.g and L.f + R.g
Subtractions ==
  { BinaryExpr(MemberExpr(l, f), o, MemberExpr(r, g)) :
      <<l, f, o, r, g>> \in ComparatorObjects \X ComparatorFields
                             \X {"-", "+"}
                             \X ComparatorObjects \X ComparatorFields }

\* (x, y) => L.f - R.g and (x, y) => OP (L.f - R.g)
SubtractionComparators ==
  { ArrowFunction(ComparatorParams, n) : n \in Subtractions }
    \cup { ArrowFunction(ComparatorParams, UnaryExpr(o, n)) :
             o \in UnaryOperators, n \in Subtractions }

\* the comparators handed to the sort schema: both idioms, and the relational
\* comparators x.f > y.g of the read analyzer
Comparators ==
  TernaryComparators \cup SubtractionComparators
    \cup { d \in ReadComparators :
             /\ d.body.left.object.name = "x"
             /\ d.body.right.object.name = "y"
             /\ d.body.operator = ">" }

SchemaRoots ==
  { [type |-> "MemberExpression", object |-> Identifier(o),
     property |-> Identifier(p)] :
      o \in RootNames, p \in {"todos", "users"} }

MethodCall(object, method, arguments) ==
  [type |-> "CallExpression",
   callee |-> [type |-> "MemberExpression", object |-> object,
               property |-> Identifier(method)],
   arguments |-> arguments]

\* root.sort(comparator) and root.filter(comparator)
SortCalls ==
  { MethodCall(r, m, <<f>>) :
      r \in SchemaRoots, m \in {"sort", "filter"}, f \in Comparators }

BooleanLiteral(value) == [type |-> "BooleanLiteral", value |-> value]

\* the branches of the conditional in the body of an update: an identifier,
\* or an object that may spread an identifier and may set a field
UpdateBranches ==
  { Identifier(n) : n \in {"t", "u"} }
    \cup { ObjectExpr(sp \o fs) :
             sp \in { <<>>, <<SpreadProperty("t")>>, <<SpreadProperty("u")>> },
             fs \in { <<>>,
                      <<ObjectProperty("active", BooleanLiteral(TRUE))>> } }

UpdateTest == BinaryExpr(MemberExpr("t", "id"), "===", NumericLiteral(10))

UpdateBodies ==
  { ConditionalExpr(UpdateTest, cq, al) :
      cq \in UpdateBranches, al \in UpdateBranches }
    \cup { MemberExpr("t", "title") }

\* L OP S.method(t => body)
Assignments ==
  { [type |-> "AssignmentExpression", operator |-> o, left |-> l,
     right |-> MethodCall(r, m,
                          <<ArrowFunction(<<Identifier("t")>>, body)>>)] :
      o \in {"=", "+="}, l \in SchemaRoots, r \in SchemaRoots,
      m \in {"map", "filter"}, body \in UpdateBodies }

(***************************************************************************)
(* The plugin: pre validates the configuration, then the traversal visits  *)
(* one node at a time and each visitor runs its analyzer on the node.      *)
(***************************************************************************)
\* pre(state): merges the options into the configuration and validates it
Pre ==
  /\ pc = "created"
  /\ pc' = IF ensureValidConfiguration(config) THEN "ready" ELSE "failed"
  /\ UNCHANGED <<config, rootDeclarations, site, outcome>>

\* visitor.ImportDeclaration: an import of the db module declares a root
ImportDeclaration ==
  /\ pc = "ready"
  /\ site = NoSite
  /\ \E name \in ImportNames :
       /\ site' = [type |-> "ImportDeclaration", name |-> name]
       /\ rootDeclarations' = rootDeclarations \cup {name}
  /\ outcome' = Nil
  /\ UNCHANGED <<pc, config>>

\* visitor.CallExpression
CallExpression ==
  /\ pc = "ready"
  /\ site = NoSite
  /\ \E e \in ChainExprs :
       /\ e.type = "CallExpression"
       /\ site' = e
       /\ outcome' = analyzeCallExpression(e, rootDeclarations, config)
  /\ UNCHANGED <<pc, config, rootDeclarations>>

\* visitor.MemberExpression
MemberExpression ==
  /\ pc = "ready"
  /\ site = NoSite
  /\ \E e \in ChainExprs :
       /\ e.type = "MemberExpression"
       /\ site' = e
       /\ outcome' = analyzeMemberExpression(e, rootDeclarations, config)
  /\ UNCHANGED <<pc, config, rootDeclarations>>

\* the traversal leaves the node: the analysis is not kept
NextNode ==
  /\ pc = "ready"
  /\ site # NoSite
  /\ site' = NoSite
  /\ outcome' = NoOutcome
  /\ UNCHANGED <<pc, config, rootDeclarations>>

Init ==
  /\ pc = "created"
  /\ config \in Configs
  /\ rootDeclarations = {}
  /\ site = NoSite
  /\ outcome = NoOutcome

Next ==
  \/ Pre
  \/ ImportDeclaration
  \/ CallExpression
  \/ MemberExpression
  \/ NextNode

Spec == Init /\ [][Next]_vars

(***************************************************************************)
(* The schemas, applied to the nodes of a program whose configuration      *)
(* names db as a root.                                                     *)
(***************************************************************************)
\* getSortExpression1 on the bindings of a matched ternary comparator
SortExpression1 ==
  /\ pc = "ready"
  /\ site = NoSite
  /\ \E b \in Bindings1 :
       /\ site' = [type |-> "Bindings"] @@ b
       /\ outcome' = getSortExpression1(b)
  /\ UNCHANGED <<pc, config, rootDeclarations>>

\* any([compareFn1, compareFn2]) on the argument of a sort call
CompareFn ==
  /\ pc = "ready"
  /\ site = NoSite
  /\ \E fn \in Comparators :
       /\ site' = fn
       /\ outcome' = compareFn(fn)
  /\ UNCHANGED <<pc, config, rootDeclarations>>

\* getSortArgs on the arguments of a sort call of the read analyzer
GetSortArgs ==
  /\ pc = "ready"
  /\ site = NoSite
  /\ \E fn \in ReadComparators :
       /\ site' = [type |-> "Arguments", arguments |-> <<fn>>]
       /\ outcome' = getSortArgs(<<fn>>)
  /\ UNCHANGED <<pc, config, rootDeclarations>>

\* the sort schema on a call expression
SortSchema ==
  /\ pc = "ready"
  /\ site = NoSite
  /\ \E call \in SortCalls :
       /\ site' = call
       /\ outcome' = sortSchema(call, rootDeclarations, config)
  /\ UNCHANGED <<pc, config, rootDeclarations>>

\* the update schema on an assignment expression
UpdateSchema ==
  /\ pc = "ready"
  /\ site = NoSite
  /\ \E asg \in Assignments :
       /\ site' = asg
       /\ outcome' = updateSchema(asg, rootDeclarations, config)
  /\ UNCHANGED <<pc, config, rootDeclarations>>

SchemaInit ==
  /\ pc = "ready"
  /\ config = [identifiers |-> {{"db"}}, clientPackageName |-> Undefined,
               serverPackageName |-> Undefined]
  /\ rootDeclarations = {}
  /\ site = NoSite
  /\ outcome = NoOutcome

SchemaNext ==
  \/ SortExpression1
  \/ CompareFn
  \/ GetSortArgs
  \/ SortSchema
  \/ UpdateSchema
  \/ NextNode

SchemaSpec == SchemaInit /\ [][SchemaNext]_vars

(***************************************************************************)
(* Properties of the chain analysis.                                       *)
(***************************************************************************)
IsChain(e) == "steps" \in DOMAIN e

\* the operation that built an IR node
OperationOf(node) ==
  IF node.type = "value" THEN node.property
  ELSE IF "method" \in DOMAIN node THEN node.method
  ELSE "root"

\* every (source operation, operation) pair along the source links of an IR
\* node is an entry of the follows table
RECURSIVE LinksFollow(_)
LinksFollow(node) ==
  IF "source" \notin DOMAIN node THEN TRUE
  ELSE /\ OperationOf(node) \in NodeIds \ {"root"}
       /\ OperationOf(node.source) \in Definition(OperationOf(node)).follows
       /\ LinksFollow(node.source)

\* the analysis of the node that precedes the last step of a chain
PredecessorOf(e) ==
  analyzeNode(e, Len(e.steps) - 1, NodeIds, rootDeclarations, config)

\* the last step of the chain names an operation whose predecessor resolves
\* to an operation that it does not follow
BrokenLink(e) ==
  /\ e.steps # <<>>
  /\ MatchingIds(e.steps[Len(e.steps)], NodeIds) # {}
  /\ PredecessorOf(e).kind = "ir"
  /\ \A id \in MatchingIds(e.steps[Len(e.steps)], NodeIds) :
       PredecessorOf(e).id \notin Definition(id).follows

\* C1: chain validity.  An operation whose resolved predecessor's id is not
\* in the operation's follows set produces no IR node, and in every IR node
\* that is produced each (source operation, operation) pair along the source
\* links is an entry of the follows table of nodeDefinitions.
C1_ChainValidity ==
  IsChain(site) =>
    /\ BrokenLink(site) => outcome.kind # "ir"
    /\ outcome.kind = "ir" => LinksFollow(outcome.node)

\* a slice directly after a length was analysed: the length resolved to an
\* IR node, slice does not follow length, and no IR node was produced
C1_Witness ==
  /\ IsChain(site)
  /\ BrokenLink(site)
  /\ Len(site.steps) = 3
  /\ site.steps[2].name = "length"
  /\ site.steps[3].name = "slice"
  /\ PredecessorOf(site).id = "length"
  /\ outcome = Nil

StepNames(e) == [i \in DOMAIN e.steps |-> e.steps[i].name]

\* every call of the chain has arguments that its args extractor accepts
ValidArguments(e) ==
  \A i \in DOMAIN e.steps :
    /\ e.steps[i].type = "CallExpression"
    /\ e.steps[i].name \in NodeIds
    /\ DefinitionArgs(e.steps[i].name, e.steps[i].arguments).kind = "ok"

\* the chain shapes that the comment above analyzeCallExpression lists, and
\* filter -> map -> slice
DocumentedChains ==
  { <<"filter">>, <<"filter", "filter">>, <<"map", "filter">>,
    <<"map", "slice">>, <<"sort">>, <<"filter", "map", "slice">> }

\* C2: every chain shape that the read analyzer documents as chainable,
\* applied to a root with well-formed arguments, is accepted by
\* analyzeCallExpression and yields a Query IR node.
C2_DocumentedChainsAccepted ==
  ( /\ IsChain(site)
    /\ isRoot(site.root, rootDeclarations, config)
    /\ StepNames(site) \in DocumentedChains
    /\ ValidArguments(site) )
  => /\ outcome.kind = "ir"
     /\ outcome.node.type = "query"
     /\ outcome.node.method = site.steps[Len(site.steps)].name

\* what the claim requires of a configuration: identifiers, or both package
\* names
ConfigurationAsDocumented(c) ==
  \/ Truthy(c.identifiers)
  \/ (Truthy(c.clientPackageName) /\ Truthy(c.serverPackageName))

\* C9: configuration validation is eager and fatal.  No visitor analyses a
\* node before pre has validated the configuration, and a configuration with
\* no identifiers and without both clientPackageName and serverPackageName
\* makes pre raise, so that no analysis ever runs.
C9_EagerFatalValidation ==
  /\ (site # NoSite \/ outcome # NoOutcome) => pc = "ready"
  /\ ~ConfigurationAsDocumented(config) =>
       (pc # "ready" /\ site = NoSite /\ outcome = NoOutcome)

\* the number of source links below an IR node
RECURSIVE Depth(_)
Depth(node) ==
  IF "source" \notin DOMAIN node THEN 0 ELSE 1 + Depth(node.source)

\* the node reached from an IR node by k source links
RECURSIVE Ancestor(_, _)
Ancestor(node, k) == IF k = 0 THEN node ELSE Ancestor(node.source, k - 1)

\* each command builder links the node it builds to the command passed in
BuildersLinkSource(command) ==
  /\ filter(command, FilterPredicate).source = command
  /\ map(command, <<<<"name", "title">>>>).source = command
  /\ slice(command, [from |-> 0, to |-> 2]).source = command
  /\ sort(command, <<[field |-> "a", ascending |-> TRUE]>>).source = command
  /\ length(command).source = command
  /\ insert(command, <<"item">>).source = command
  /\ update(command, [update |-> <<"active">>,
                      predicate |-> FilterPredicate]).source = command
  /\ remove(command, FilterPredicate).source = command

\* C10: IR pipeline shape.  Every node built by a command builder holds one
\* source reference, the predecessor node passed in, unchanged; following
\* the source links of the IR of a chain visits one node per operation of
\* the chain, outermost first, and ends at the CollectionRef built by
\* createCollection, which has no source.
C10_PipelineShape ==
  (IsChain(site) /\ outcome.kind = "ir") =>
    LET n == Len(site.steps) IN
    /\ Depth(outcome.node) = n
    /\ \A k \in 0..(n - 1) :
         OperationOf(Ancestor(outcome.node, k)) = site.steps[n - k].name
    /\ n > 0 => /\ PredecessorOf(site).kind = "ir"
                /\ outcome.node.source = PredecessorOf(site).node
    /\ Ancestor(outcome.node, n) =
         createCollection([db |-> site.root.object.name,
                           collection |-> site.root.property.name])
    /\ "source" \notin DOMAIN Ancestor(outcome.node, n)
    /\ BuildersLinkSource(outcome.node)

\* filter -> map -> slice was analysed into an IR of three linked nodes
C10_Witness ==
  /\ IsChain(site)
  /\ outcome.kind = "ir"
  /\ StepNames(site) = <<"filter", "map", "slice">>
  /\ Depth(outcome.node) = 3

(***************************************************************************)
(* Properties of the sort schema.                                          *)
(***************************************************************************)
IsBindings(e) == e.type = "Bindings"

\* the clamped sign of a comparison of the ternary idiom, as documented:
\* (parameter-order sign) x (operator sign) x (clamped sign of the literal)
ComparisonSign(b, lhs, rhs, operator, val) ==
  paramOrder(b, lhs, rhs).number * operatorVal(operator).number * stdVal(val)

\* the result that the ternary idiom is documented to have on bindings with
\* four identical properties
DocumentedSortExpression1(b) ==
  IF paramOrder(b, b.lhs1, b.rhs1).skip
    THEN Skip(paramOrder(b, b.lhs1, b.rhs1).message)
  ELSE IF operatorVal(b.operator1).skip
    THEN Skip(operatorVal(b.operator1).message)
  ELSE IF paramOrder(b, b.lhs2, b.rhs2).skip
    THEN Skip(paramOrder(b, b.lhs2, b.rhs2).message)
  ELSE IF operatorVal(b.operator2).skip
    THEN Skip(operatorVal(b.operator2).message)
  ELSE
    LET total == ComparisonSign(b, b.lhs1, b.rhs1, b.operator1, b.val1)
                   + ComparisonSign(b, b.lhs2, b.rhs2, b.operator2, b.val2)
                   + b.val3
    IN
    IF total = 2 THEN Match([field |-> b.lhsProp1, ascending |-> TRUE])
    ELSE IF total = 0 - 2
      THEN Match([field |-> b.lhsProp1, ascending |-> FALSE])
    ELSE Skip("Invalid sort expression.")

\* C3: ternary comparator idiom.  On the bindings of a matched comparator
\* whose four compared properties are identical, getSortExpression1 adds the
\* two products of parameter-order sign, operator sign and clamped literal
\* sign and the trailing literal, and returns the ascending descriptor for
\* +2, the descending descriptor for -2 and a Skip otherwise; it never
\* raises.
C3_TernaryIdiom ==
  ( /\ IsBindings(site)
    /\ site.lhsProp1 = site.rhsProp1
    /\ site.lhsProp1 = site.lhsProp2
    /\ site.lhsProp1 = site.rhsProp2 )
  => /\ outcome.kind \in {"match", "skip"}
     /\ outcome = DocumentedSortExpression1(site)

IsComparator(e) == e.type = "ArrowFunctionExpression"

\* (x, y) => x.f > y.f ? 1 : x.f === y.f ? 0 : -1
CanonicalTernary1(f) ==
  TernaryComparator(
    [param1 |-> "x", param2 |-> "y",
     lhs1 |-> "x", lhsProp1 |-> f, rhs1 |-> "y", rhsProp1 |-> f,
     operator1 |-> ">", val1 |-> 1,
     lhs2 |-> "x", lhsProp2 |-> f, rhs2 |-> "y", rhsProp2 |-> f,
     operator2 |-> "===", val2 |-> 0, val3 |-> 0 - 1])

\* (x, y) => x.f > y.f ? 1 : x.f < y.f ? -1 : 0
CanonicalTernary2(f) ==
  TernaryComparator(
    [param1 |-> "x", param2 |-> "y",
     lhs1 |-> "x", lhsProp1 |-> f, rhs1 |-> "y", rhsProp1 |-> f,
     operator1 |-> ">", val1 |-> 1,
     lhs2 |-> "x", lhsProp2 |-> f, rhs2 |-> "y", rhsProp2 |-> f,
     operator2 |-> "<", val2 |-> 0 - 1, val3 |-> 0])

\* C4: the two documented canonical ternary comparators on a field f are
\* recognized as the ascending sort {field: f, ascending: true}.
C4_CanonicalTernaryAscending ==
  \A f \in ComparatorFields :
    (IsComparator(site)
       /\ site \in {CanonicalTernary1(f), CanonicalTernary2(f)})
    => outcome = Match([field |-> f, ascending |-> TRUE])

\* the comparator is (p1, p2) => L.f - R.g, negated or not by a unary
\* operator
IsSubtractionBody(n) == n.type = "BinaryExpression" /\ n.operator = "-"

Negated(fn) == fn.body.type = "UnaryExpression"

SubtractionOf(fn) == IF Negated(fn) THEN fn.body.argument ELSE fn.body

IsSubtractionIdiom(fn) ==
  /\ IsComparator(fn)
  /\ IF Negated(fn)
     THEN fn.body.operator = "-" /\ IsSubtractionBody(fn.body.argument)
     ELSE IsSubtractionBody(fn.body)

C6_OnlyMinusNegates ==
  ( /\ IsComparator(site)
    /\ Negated(site)
    /\ site.body.operator # "-"
    /\ IsSubtractionBody(site.body.argument) )
  => outcome.kind = "skip"

(***************************************************************************)
(* Properties of the update schema.                                        *)
(***************************************************************************)
IsAssignment(e) == e.type = "AssignmentExpression"

\* L = S.map(t => ...) with L and S references to collections of a root
IsMapAssignment(e) ==
  /\ IsAssignment(e)
  /\ e.operator = "="
  /\ isRoot(e.left, rootDeclarations, config)
  /\ isRoot(e.right.callee.object, rootDeclarations, config)
  /\ e.right.callee.property = Identifier("map")

\* C7: soft mismatch of the write recognizer.  An assignment L = S.map(fn)
\* whose left-hand collection differs from the collection that is mapped
\* results in a Skip, and no assignment makes the update schema raise.
C7_SoftMismatch ==
  IsAssignment(site) =>
    /\ outcome.kind # "throw"
    /\ (IsMapAssignment(site) /\ site.left # site.right.callee.object)
         => outcome.kind = "skip"

\* the body is test ? {...t, fields} : t, or test ? t : {...t, fields}
IsUpdateBody(body, name) ==
  /\ body.type = "ConditionalExpression"
  /\ \/ /\ updatedObject(body.consequent, Identifier(name)).kind = "match"
        /\ body.alternate = Identifier(name)
     \/ /\ body.consequent = Identifier(name)
        /\ updatedObject(body.alternate, Identifier(name)).kind = "match"

\* the fields that the updated object adds to the spread identifier
ExtraFields(body) ==
  LET object == IF body.consequent.type = "ObjectExpression"
                THEN body.consequent ELSE body.alternate
  IN SubSeq(object.properties, 2, Len(object.properties))

\* C8: success of the write recognizer.  For root.c = root.c.map(x => test ?
\* {...x, fields} : x), and for the inverse form with the branches swapped,
\* the update schema produces the Modification node with method "update",
\* the extra fields as update, the test as predicate and the collection
\* reference as source.
C8_UpdateRecognized ==
  ( /\ IsMapAssignment(site)
    /\ site.left = site.right.callee.object
    /\ IsUpdateBody(site.right.arguments[1].body,
                    site.right.arguments[1].params[1].name) )
  => outcome =
       Ir(update(createCollection(
                   getRootArgs(site.left, rootDeclarations, config)),
                 [update |-> ExtraFields(site.right.arguments[1].body),
                  predicate |-> site.right.arguments[1].body.test]))

(***************************************************************************)
(* Properties of getSortArgs, the sort recognizer of the read analyzer.    *)
(***************************************************************************)
IsArguments(e) == e.type = "Arguments"

\* the comparator (p1, p2) => L.f OP R.g uses a relational operator, the
\* same property on both sides and exactly its two parameters
IsRelationalComparator(fn) ==
  /\ fn.body.operator \in {">", ">=", "<", "<="}
  /\ fn.body.left.property.name = fn.body.right.property.name
  /\ {fn.body.left.object.name, fn.body.right.object.name}
       = {fn.params[1].name, fn.params[2].name}

\* C11: relational sort direction.  For (p1, p2) => L.f OP R.f with OP one
\* of >, >=, <, <= and {L, R} = {p1, p2}, getSortArgs returns exactly one
\* descriptor {field: f, ascending}, ascending iff OP is > or >= and L is
\* p1, or OP is < or <= and R is p1; >= sorts as > and <= as <.
C11_RelationalDirection ==
  (IsArguments(site) /\ IsRelationalComparator(site.arguments[1])) =>
    LET fn == site.arguments[1]
        p1 == fn.params[1].name
        OP == fn.body.operator
    IN
    outcome =
      Ok(<< [field |-> fn.body.left.property.name,
             ascending |->
               \/ (OP \in {">", ">="} /\ fn.body.left.object.name = p1)
               \/ (OP \in {"<", "<="} /\ fn.body.right.object.name = p1)] >>)

\* C12: fatal validation in the sort recognizer.  When the operator is not
\* one of >, >=, <, <=, or the two compared properties differ, or the two
\* compared objects are not exactly the two parameters, getSortArgs raises
\* an error: it returns no descriptor and no Skip.
C12_FatalValidation ==
  (IsArguments(site) /\ ~IsRelationalComparator(site.arguments[1])) =>
    /\ outcome.kind = "throw"
    /\ outcome.error = ErrorClass

\* (x, y) => x.a > x.a was rejected: its operator and its properties are
\* valid, the parameter y is not referenced, and an error was raised
C12_Witness ==
  /\ IsArguments(site)
  /\ site.arguments[1].body =
       BinaryExpr(MemberExpr("x", "a"), ">", MemberExpr("x", "a"))
  /\ outcome.kind = "throw"
  /\ outcome.message =
       "The sort expression should reference both parameters in the arrow function."

====
